---- MODULE Spec2Model ----
(***************************************************************************)
(* Gastenhuis_Autorooster: the preprocessing stage (app/preprocessing.py), *)
(* the compliance validator (app/validate.py) and the caller of both       *)
(* (web/app.py), as a state machine.                                       *)
(*                                                                         *)
(* Conventions.  A calendar date is an integer day number; day 0 is a      *)
(* Monday, so the calendar weekday of d is d % 7 (0 = Monday).  A time of  *)
(* day is minutes after midnight; NaT is a missing time.  An id is the     *)
(* sequence of its characters.  A DataFrame is the sequence of its rows;   *)
(* an argument that may be None is a record [none, rows].                  *)
(***************************************************************************)
EXTENDS Integers, Sequences, FiniteSets, TLC

VARIABLES
    pc,               \* position of the run
    df_werknemers,    \* preprocess_data input: raw worker roster
    df_onb,           \* preprocess_data input: declared unavailability
    prev_assignments, \* preprocess_data input: prior-period assignments or None
    df_vastrooster,   \* preprocess_data input: fixed recurring commitments or None
    num_weeks,        \* preprocess_data input: horizon length in weeks
    today,            \* dt.datetime.now().date(): [day, year, month, dom]
    data,             \* the dict preprocess_data returns (validator input)
    result,           \* the optimizer's result: [assignments_df]
    errors,           \* validate_auto_rooster's local list of messages
    returned,         \* what validate_auto_rooster returned to its caller
    response          \* generate_schedule's response status

vars == <<pc, df_werknemers, df_onb, prev_assignments, df_vastrooster,
          num_weeks, today, data, result, errors, returned, response>>

-----------------------------------------------------------------------------
(* Generic helpers for sequences and sets.                                 *)

Range(s) == {s[i] : i \in DOMAIN s}

RECURSIVE Flatten(_)
Flatten(ss) == IF ss = <<>> THEN <<>> ELSE Head(ss) \o Flatten(Tail(ss))

RECURSIVE SumSeq(_)
SumSeq(s) == IF s = <<>> THEN 0 ELSE Head(s) + SumSeq(Tail(s))

\* a set of integers as the ascending sequence of its elements
RECURSIVE SortInts(_)
SortInts(S) ==
    IF S = {} THEN <<>>
    ELSE LET m == CHOOSE x \in S : \A y \in S : x <= y
         IN  <<m>> \o SortInts(S \ {m})

MinOf(S) == CHOOSE x \in S : \A y \in S : x <= y
MaxOf(S) == CHOOSE x \in S : \A y \in S : x >= y

\* Python's range(a, b) as a sequence
PyRange(a, b) == [i \in 1..(IF b > a THEN b - a ELSE 0) |-> a + i - 1]

\* the absent value of a DataFrame cell holding an id (pd.NA / NaN)
NA == <<>>
\* the absent value of a time cell (pd.NaT)
NaT == -1
\* the absent value of a numeric cell (NaN)
NaN == -1

\* an argument that is None, and one that is a DataFrame with these rows
PyNone == [none |-> TRUE, rows |-> <<>>]
Frame(rows) == [none |-> FALSE, rows |-> rows]

\* strptime(..., '%H:%M').time()
HM(h, m) == h * 60 + m

\* round() of the non-negative quotient n / d, halves to the even neighbour
RoundDiv(n, d) ==
    LET q == n \div d
        r == n % d
    IN  IF 2 * r < d THEN q
        ELSE IF 2 * r > d THEN q + 1
        ELSE IF q % 2 = 0 THEN q ELSE q + 1

\* the code of a character, for Python's string order
CharCode(c) ==
    CASE c = "-" -> 45 [] c = "." -> 46
      [] c = "0" -> 48 [] c = "1" -> 49 [] c = "2" -> 50 [] c = "3" -> 51
      [] c = "4" -> 52 [] c = "5" -> 53 [] c = "6" -> 54 [] c = "7" -> 55
      [] c = "8" -> 56 [] c = "9" -> 57

\* Python's s <= t on strings
RECURSIVE StrLeq(_, _)
StrLeq(s, t) ==
    IF s = <<>> THEN TRUE
    ELSE IF t = <<>> THEN FALSE
    ELSE IF Head(s) = Head(t) THEN StrLeq(Tail(s), Tail(t))
    ELSE CharCode(Head(s)) < CharCode(Head(t))

-----------------------------------------------------------------------------
(* Calendar Expander: preprocessing.py lines 14-126.                       *)

\* the weekly shift template; Duur is in hundredths of an hour
info_shifts == <<
    [Shifts |-> "D1",  Begintijd |-> HM(7, 0),   Eindtijd |-> HM(15, 0),  Duur |-> 800,
     dagen |-> <<1, 1, 1, 1, 1, 1, 1>>, Deskundigheden |-> <<1, 2>>],
    [Shifts |-> "D2",  Begintijd |-> HM(7, 30),  Eindtijd |-> HM(15, 0),  Duur |-> 750,
     dagen |-> <<1, 1, 1, 1, 1, 1, 1>>, Deskundigheden |-> <<2>>],
    [Shifts |-> "D3",  Begintijd |-> HM(7, 30),  Eindtijd |-> HM(14, 0),  Duur |-> 650,
     dagen |-> <<1, 1, 1, 1, 1, 1, 1>>, Deskundigheden |-> <<3>>],
    [Shifts |-> "D4",  Begintijd |-> HM(8, 45),  Eindtijd |-> HM(12, 45), Duur |-> 400,
     dagen |-> <<1, 1, 1, 0, 1, 0, 1>>, Deskundigheden |-> <<3>>],
    [Shifts |-> "FM",  Begintijd |-> HM(8, 0),   Eindtijd |-> HM(12, 30), Duur |-> 450,
     dagen |-> <<1, 1, 1, 1, 0, 0, 0>>, Deskundigheden |-> <<6>>],
    [Shifts |-> "GD",  Begintijd |-> HM(8, 0),   Eindtijd |-> HM(14, 0),  Duur |-> 600,
     dagen |-> <<1, 1, 1, 1, 1, 1, 1>>, Deskundigheden |-> <<4>>],
    [Shifts |-> "KOK", Begintijd |-> HM(15, 0),  Eindtijd |-> HM(19, 30), Duur |-> 450,
     dagen |-> <<1, 1, 1, 1, 1, 1, 1>>, Deskundigheden |-> <<5>>],
    [Shifts |-> "A1",  Begintijd |-> HM(15, 0),  Eindtijd |-> HM(23, 0),  Duur |-> 800,
     dagen |-> <<1, 1, 1, 1, 1, 1, 1>>, Deskundigheden |-> <<2>>],
    [Shifts |-> "A2",  Begintijd |-> HM(15, 30), Eindtijd |-> HM(22, 30), Duur |-> 700,
     dagen |-> <<1, 1, 1, 1, 1, 1, 1>>, Deskundigheden |-> <<3>>],
    [Shifts |-> "A3",  Begintijd |-> HM(18, 30), Eindtijd |-> HM(22, 30), Duur |-> 400,
     dagen |-> <<1, 1, 1, 1, 1, 1, 0>>, Deskundigheden |-> <<3>>],
    [Shifts |-> "GA",  Begintijd |-> HM(16, 0),  Eindtijd |-> HM(22, 0),  Duur |-> 600,
     dagen |-> <<1, 1, 1, 1, 1, 1, 1>>, Deskundigheden |-> <<4>>],
    [Shifts |-> "N",   Begintijd |-> HM(22, 45), Eindtijd |-> HM(7, 0),   Duur |-> 825,
     dagen |-> <<1, 1, 1, 1, 1, 1, 1>>, Deskundigheden |-> <<2>>] >>

\* day_map: the weekday indices 0..6 of the template's day columns, in order
days == <<0, 1, 2, 3, 4, 5, 6>>

\* one requirement per (template row, active day), rows outermost
shift_requirements ==
    Flatten([r \in 1..Len(info_shifts) |->
        LET row == info_shifts[r]
            active == SelectSeq(days, LAMBDA d : row.dagen[d + 1] = 1)
        IN  [k \in 1..Len(active) |->
                [shift_name |-> row.Shifts, day_of_week |-> active[k],
                 start_time |-> row.Begintijd, end_time |-> row.Eindtijd,
                 qualification |-> row.Deskundigheden, duration |-> row.Duur]]])

\* the shift instances of the horizon, before ids are assigned (lines 82-116)
all_shift_instances(start_date, global_start_date, nw) ==
    Flatten([w \in 1..nw |->
        [k \in 1..Len(shift_requirements) |->
            LET row == shift_requirements[k]
                week == w - 1
                shift_date == start_date + week * 7 + row.day_of_week
            IN  [shift_name |-> row.shift_name,
                 shift_date |-> shift_date,
                 week |-> week + 1,
                 global_week |-> ((shift_date - global_start_date) \div 7) + 1,
                 day_of_week |-> row.day_of_week,
                 absolute_day |-> week * 7 + row.day_of_week,
                 start_time |-> row.start_time,
                 end_time |-> row.end_time,
                 duration_min |-> RoundDiv(row.duration * 60, 100),
                 qualification |-> row.qualification,
                 is_night |-> (row.shift_name = "N")]]])

\* shifts.set_index('shift_id')['duration_min'] at one id (line 255)
ShiftDuration(shifts, sid) ==
    shifts[CHOOSE i \in DOMAIN shifts : shifts[i].shift_id = sid].duration_min

\* reset_index(drop=True) followed by shift_id = index
Reindex(rows) == [i \in 1..Len(rows) |-> [shift_id |-> i - 1] @@ rows[i]]

\* the administrative-only shift names
AdminShifts == {"KOK", "FM"}

\* shifts_constant: the reference set of administrative shifts (lines 118-122)
ShiftsConstant(instances) ==
    Reindex(SelectSeq(instances, LAMBDA s : s.shift_name \in AdminShifts))

\* shifts: the assignable population (lines 124-126)
ShiftsAssignable(instances) ==
    Reindex(SelectSeq(instances, LAMBDA s : s.shift_name \notin AdminShifts))

-----------------------------------------------------------------------------
(* Start date, epoch and prior-period assignments: lines 54-80, 128-137.   *)

\* x.split(c)[0]: the characters before the first c
RECURSIVE SplitFirst(_, _)
SplitFirst(x, c) ==
    IF x = <<>> \/ Head(x) = c THEN <<>>
    ELSE <<Head(x)>> \o SplitFirst(Tail(x), c)

\* x.lstrip('0')
RECURSIVE LStrip0(_)
LStrip0(x) == IF x # <<>> /\ Head(x) = "0" THEN LStrip0(Tail(x)) ELSE x

\* the employee_id of a prior assignment: cut at the first dot (line 61)
PrevEmployeeId(x) == IF "." \in Range(x) THEN SplitFirst(x, ".") ELSE x

\* prev_assignments is not None and not prev_assignments.empty (lines 55, 214)
HasRows(df) == ~df.none /\ df.rows # <<>>

\* the Monday of the week of the earliest prior date (lines 64-66)
PrevGlobalStart(rows) ==
    LET first == MinOf({rows[i].shift_date : i \in DOMAIN rows})
    IN  first - (first % 7)

\* the week index of a prior assignment (lines 69-71)
PrevGlobalWeek(shift_date, global_start_date) == (shift_date - global_start_date) \div 7

\* the prior assignments with employee_id and global_week set (lines 57-71)
PrevRows(rows) ==
    [i \in 1..Len(rows) |->
        [employee_id |-> PrevEmployeeId(rows[i].employee_id),
         global_week |-> PrevGlobalWeek(rows[i].shift_date, PrevGlobalStart(rows))]
        @@ rows[i]]

\* the next Monday from today, today itself when it is a Monday (lines 77-78)
NextMonday(t) == t + ((7 - (t % 7)) % 7)

\* start_date (lines 74, 78)
StartDate(prev, t) ==
    IF HasRows(prev)
    THEN MaxOf({prev.rows[i].shift_date : i \in DOMAIN prev.rows}) + 1
    ELSE NextMonday(t.day)

\* global_start_date (lines 64-66, 79)
GlobalStartDate(prev, t) ==
    IF HasRows(prev) THEN PrevGlobalStart(prev.rows) ELSE StartDate(prev, t)

\* the look-back synthesized when there are no prior assignments (lines 129-137)
SynthPrev(shifts, start_date) ==
    LET before == SelectSeq(shifts, LAMBDA r : r.shift_date < start_date)
        within == SelectSeq(before, LAMBDA r : r.shift_date >= start_date - 28)
    IN  [i \in 1..Len(within) |->
            [employee_id |-> NA] @@ [within[i] EXCEPT !.global_week = @ - 4]]

\* the prev_assignments preprocess_data returns
PrevOut(prev, shifts, start_date) ==
    IF HasRows(prev) THEN PrevRows(prev.rows) ELSE SynthPrev(shifts, start_date)

-----------------------------------------------------------------------------
(* Worker Normalizer: lines 140-211.                                       *)

\* the canonical id of a roster or fixed-commitment row (lines 145, 216)
CanonicalId(x) == SplitFirst(LStrip0(x), "-")

\* the decimal digits of n >= 0, most significant first: [int(c) for c in str(n)]
RECURSIVE DigitsOf(_)
DigitsOf(n) == IF n < 10 THEN <<n>> ELSE Append(DigitsOf(n \div 10), n % 10)

\* a raw qualification code as a list of codes (lines 164-172)
Unpack(code) == IF code < 10 THEN <<code>> ELSE DigitsOf(code)

\* the exclusion without qualification 6
ExcludedOnly5(lst) == 5 \in Range(lst)

\* the rows dropped for an excluded qualification (line 181)
Excluded(lst) == 5 \in Range(lst) \/ 6 \in Range(lst)

\* qualification 7 implies qualification 3 (line 184)
Imply3(lst) == IF 7 \in Range(lst) /\ 3 \notin Range(lst) THEN Append(lst, 3) ELSE lst

\* contracturen after the on-call rule (line 187); hours are in hundredths
OnCallHours(row) == IF row.contract_soort = "oproep" THEN 0 ELSE row.contracturen

\* max_days_per_week (line 190)
MaxDays(row) == IF row.max_werkdgn_pw = NaN THEN 0 ELSE row.max_werkdgn_pw

\* contract_hours, with the 9 hours a day fallback (lines 193-196)
ContractHours(row) ==
    LET h == IF OnCallHours(row) = NaN THEN 0 ELSE OnCallHours(row)
    IN  IF h = 0 THEN MaxDays(row) * 9 * 100 ELSE h

\* contract_minutes before the fixed commitments are subtracted (line 198)
ContractMinutes(row) == RoundDiv(ContractHours(row) * 60, 100)

\* leeftijd on the current date (lines 200-204)
Leeftijd(t, born) ==
    t.year - born.year
    - (IF t.month < born.month \/ (t.month = born.month /\ t.dom < born.dom) THEN 1 ELSE 0)

\* the canonical worker records, before the fixed commitments (lines 141-204)
NormalizeWorkers(roster, t) ==
    LET ids == [i \in 1..Len(roster) |->
                    [roster[i] EXCEPT !.medewerker_id = CanonicalId(@)]]
        planned == SelectSeq(ids, LAMBDA r : r.wensen # "niet plannen")
        unpacked == [i \in 1..Len(planned) |->
                        [planned[i] EXCEPT !.deskundigheid = Unpack(@)]]
        kept == SelectSeq(unpacked, LAMBDA r : ~Excluded(r.deskundigheid))
    IN  [i \in 1..Len(kept) |->
            [medewerker_id |-> kept[i].medewerker_id,
             wensen |-> kept[i].wensen,
             deskundigheid |-> Imply3(kept[i].deskundigheid),
             contract_soort |-> kept[i].contract_soort,
             contracturen |-> OnCallHours(kept[i]),
             max_days_per_week |-> MaxDays(kept[i]),
             contract_hours |-> ContractHours(kept[i]),
             contract_minutes |-> ContractMinutes(kept[i]),
             leeftijd |-> Leeftijd(t, kept[i].geboortedatum)]]

\* emp_ids and emp_index (lines 209-211): the last ordinal of each id
EmpIds(workers) == [i \in 1..Len(workers) |-> workers[i].medewerker_id]
EmpIndex(emp_ids) ==
    [e \in Range(emp_ids) |-> MaxOf({i \in DOMAIN emp_ids : emp_ids[i] = e}) - 1]

-----------------------------------------------------------------------------
(* Unavailability Merger: lines 213-250.                                   *)

\* day_map_const (line 218); a name that is no key maps to NaN
DayMapConst(dag) ==
    CASE dag = "maandag" -> 0 [] dag = "dinsdag" -> 1 [] dag = "woensdag" -> 2
      [] dag = "donderdag" -> 3 [] dag = "vrijdag" -> 4 [] dag = "zaterdag" -> 5
      [] dag = "zondag" -> 6 [] OTHER -> NaN

\* the date of a fixed-commitment row (line 221)
VastDate(row, start_date) ==
    IF DayMapConst(row.dag) = NaN THEN NaT
    ELSE start_date + (row.weekvolgnr - 1) * 7 + DayMapConst(row.dag)

\* find_shift_id (lines 223-225): the first reference shift of that name and weekday
find_shift_id(row, shifts_constant) ==
    LET matches == SelectSeq(shifts_constant,
                       LAMBDA c : c.shift_name = row.dienst
                                  /\ c.day_of_week = DayMapConst(row.dag))
    IN  IF matches # <<>> THEN matches[1].shift_id ELSE NaN

\* df_const_unavail (lines 216-232)
ConstUnavail(vast, shifts_constant, start_date) ==
    [i \in 1..Len(vast) |->
        [Medewerker_id |-> CanonicalId(vast[i].medewerker_id),
         Datum |-> VastDate(vast[i], start_date),
         shift_id |-> find_shift_id(vast[i], shifts_constant),
         Beschikbaarheid |-> "Niet beschikbaar (constant schedule)",
         Beschikbaarheid_tijd_vanaf |-> NaT,
         Beschikbaarheid_tijd_tm |-> NaT]]

\* the rows pd.concat appends to df_onb (line 233): the raw columns are absent
ConcatRows(cu) ==
    [i \in 1..Len(cu) |->
        [Medewerker_id |-> cu[i].Medewerker_id,
         Datum |-> cu[i].Datum,
         Beschikbaarheid |-> cu[i].Beschikbaarheid,
         Beschikbaarheid_tijd_vanaf |-> cu[i].Beschikbaarheid_tijd_vanaf,
         Beschikbaarheid_tijd_tm |-> cu[i].Beschikbaarheid_tijd_tm,
         Datum_beschikbaarheid |-> NaN,
         Beschikbaarheid_tijd_vanaf_raw |-> <<>>,
         Beschikbaarheid_tijd_tm_raw |-> <<>>]]

\* the minutes subtracted from emp's contract_minutes (lines 237-238): the
\* durations of the reference shifts whose id is among emp's matched ids
HoursToSubtract(cu, shifts_constant, emp) ==
    LET mine == SelectSeq(cu, LAMBDA r : r.Medewerker_id = emp)
        shift_ids == {mine[i].shift_id : i \in DOMAIN mine} \ {NaN}
        hit == SelectSeq(shifts_constant, LAMBDA c : c.shift_id \in shift_ids)
    IN  SumSeq([i \in 1..Len(hit) |-> hit[i].duration_min])

\* the workers after the subtraction of lines 236-239
SubtractConst(workers, cu, shifts_constant) ==
    [i \in 1..Len(workers) |->
        IF workers[i].medewerker_id \in {cu[k].Medewerker_id : k \in DOMAIN cu}
        THEN [workers[i] EXCEPT !.contract_minutes =
                  @ - HoursToSubtract(cu, shifts_constant, workers[i].medewerker_id)]
        ELSE workers[i]]

\* pd.to_datetime(..., format='%d-%m-%Y').dt.date of a raw date cell (line 245)
ParseDate(x) == IF x = NaN THEN NaT ELSE x

\* pd.to_datetime(..., format='%H:%M', errors='coerce').dt.time (lines 247-248):
\* a raw cell is <<hours, minutes>>, or anything else that does not parse
ParseTime(x) ==
    IF Len(x) = 2 /\ x[1] \in 0..23 /\ x[2] \in 0..59 THEN HM(x[1], x[2]) ELSE NaT

\* the unavailability table preprocess_data returns (lines 245-250): every
\* column is computed anew from the raw columns of the row
OnbOut(rows) ==
    [i \in 1..Len(rows) |->
        [Medewerker_id |-> rows[i].Medewerker_id,
         Datum |-> ParseDate(rows[i].Datum_beschikbaarheid),
         Beschikbaarheid |->
             IF rows[i].Beschikbaarheid = "NaN" THEN "Onbekend" ELSE rows[i].Beschikbaarheid,
         Beschikbaarheid_tijd_vanaf |-> ParseTime(rows[i].Beschikbaarheid_tijd_vanaf_raw),
         Beschikbaarheid_tijd_tm |-> ParseTime(rows[i].Beschikbaarheid_tijd_tm_raw)]]

-----------------------------------------------------------------------------
(* Index Builder and the returned dict: lines 254-294.                     *)

\* the dict preprocess_data returns, from its tables
MakeData(shifts, workers, onb, prev) ==
    LET weeks == SortInts({shifts[i].week : i \in DOMAIN shifts})
        ids(rows) == [i \in 1..Len(rows) |-> rows[i].shift_id]
    IN  [shifts |-> shifts,
         workers |-> workers,
         onb |-> onb,
         emp_ids |-> EmpIds(workers),
         emp_index |-> EmpIndex(EmpIds(workers)),
         dur_min |-> [sid \in {shifts[i].shift_id : i \in DOMAIN shifts} |->
                         ShiftDuration(shifts, sid)],
         shifts_by_week |-> [w \in Range(weeks) |->
                                ids(SelectSeq(shifts, LAMBDA r : r.week = w))],
         shifts_by_day |-> [d \in {shifts[i].absolute_day : i \in DOMAIN shifts} |->
                               ids(SelectSeq(shifts, LAMBDA r : r.absolute_day = d))],
         weeks |-> weeks,
         night_shifts |-> ids(SelectSeq(shifts, LAMBDA r : r.is_night)),
         night_shifts_by_week |-> [w \in Range(weeks) |->
                                      ids(SelectSeq(shifts, LAMBDA r : r.week = w /\ r.is_night))],
         prev_assignments |-> prev]

\* preprocess_data(df_werknemers, df_onb, prev_assignments, df_vastrooster, num_weeks)
PreprocessData(roster, onb, prev, vast, nw, t) ==
    LET start_date == StartDate(prev, t)
        instances == all_shift_instances(start_date, GlobalStartDate(prev, t), nw)
        shifts_constant == ShiftsConstant(instances)
        shifts == ShiftsAssignable(instances)
        workers0 == NormalizeWorkers(roster, t)
        cu == IF HasRows(vast) THEN ConstUnavail(vast.rows, shifts_constant, start_date)
              ELSE <<>>
        workers == IF HasRows(vast) THEN SubtractConst(workers0, cu, shifts_constant)
                   ELSE workers0
        onb_all == IF HasRows(vast) THEN onb \o ConcatRows(cu) ELSE onb
    IN  MakeData(shifts, workers, OnbOut(onb_all), PrevOut(prev, shifts, start_date))

\* the data of a run before preprocess_data returned
NoData == [shifts |-> <<>>, workers |-> <<>>, onb |-> <<>>, prev_assignments |-> <<>>]

\* the optimizer's result before the optimizer ran
NoResult == [assignments_df |-> <<>>]

\* generate_schedule calling preprocess_data (web/app.py line 69)
Preprocess ==
    /\ pc = "preprocess"
    /\ data' = PreprocessData(df_werknemers, df_onb, prev_assignments, df_vastrooster,
                              num_weeks, today)
    /\ pc' = "preprocessed"
    /\ UNCHANGED <<df_werknemers, df_onb, prev_assignments, df_vastrooster,
                   num_weeks, today, result, errors, returned, response>>

-----------------------------------------------------------------------------
(* Compliance Validator: validate.py, validate_auto_rooster.               *)

\* the ids the validator names
ID_2097 == <<"2", "0", "9", "7">>
ID_2653 == <<"2", "6", "5", "3">>
ID_3888 == <<"3", "8", "8", "8">>
ID_601011 == <<"6", "0", "1", "0", "1", "1">>
ID_602056 == <<"6", "0", "2", "0", "5", "6">>
ID_602859 == <<"6", "0", "2", "8", "5", "9">>
ID_603722 == <<"6", "0", "3", "7", "2", "2">>
ID_627311 == <<"6", "2", "7", "3", "1", "1">>

COA_7_1_exempt == {ID_602859}
CAO_7_4_exempt == {ID_2097, ID_602859}

\* assignments_df.dropna(subset=['employee_id'])
DropUnassigned(adf) == SelectSeq(adf, LAMBDA r : r.employee_id # NA)

\* a set of ids as the sequence groupby iterates: ascending string order
RECURSIVE SortIds(_)
SortIds(S) ==
    IF S = {} THEN <<>>
    ELSE LET m == CHOOSE x \in S : \A y \in S : StrLeq(x, y)
         IN  <<m>> \o SortIds(S \ {m})

\* the keys of groupby("employee_id"), and one group
EmpKeys(adf) == SortIds({adf[i].employee_id : i \in DOMAIN adf})
EmpGroup(adf, emp) == SelectSeq(adf, LAMBDA r : r.employee_id = emp)

\* the keys of groupby("week") within a group
WeekKeys(group) == SortInts({group[i].week : i \in DOMAIN group})

\* sort_values().tolist() of a column of dates
RECURSIVE SortDates(_)
SortDates(s) ==
    IF s = <<>> THEN <<>>
    ELSE LET m == MinOf(Range(s))
         IN  SelectSeq(s, LAMBDA d : d = m) \o SortDates(SelectSeq(s, LAMBDA d : d # m))

\* workers.loc[workers['medewerker_id'] == emp].iloc[0]
WorkerOf(workers, emp) ==
    workers[CHOOSE i \in DOMAIN workers :
                /\ workers[i].medewerker_id = emp
                /\ \A j \in 1..(i - 1) : workers[j].medewerker_id # emp]

\* shifts.set_index('shift_id').loc[sid]
ShiftLookup(shifts, sid) ==
    shifts[CHOOSE i \in DOMAIN shifts : shifts[i].shift_id = sid]

\* the night rows of a group, by date: group[group['is_night']].sort_values("shift_date")
NightDates(group) ==
    LET nights == SelectSeq(group, LAMBDA r : r.is_night)
    IN  SortDates([i \in 1..Len(nights) |-> nights[i].shift_date])

\* 'A' in shift_name, over the names of the template
HasA(name) == name \in {"A1", "A2", "A3", "GA"}

\* partition sorted dates into runs of consecutive calendar dates (lines 184-192)
RECURSIVE BlocksFrom(_, _, _)
BlocksFrom(ds, blocks, block) ==
    IF ds = <<>> THEN (IF block # <<>> THEN Append(blocks, block) ELSE blocks)
    ELSE LET d == Head(ds)
         IN  IF block = <<>> \/ d = block[Len(block)] + 1
             THEN BlocksFrom(Tail(ds), blocks, Append(block, d))
             ELSE BlocksFrom(Tail(ds), Append(blocks, block), <<d>>)
Blocks(ds) == BlocksFrom(ds, <<>>, <<>>)

\* 1) each shift has at most one assigned employee (lines 30-33)
Check1(adf) ==
    LET sids == SortInts({adf[i].shift_id : i \in DOMAIN adf})
    IN  Flatten([k \in 1..Len(sids) |->
            LET group == SelectSeq(adf, LAMBDA r : r.shift_id = sids[k])
            IN  IF Len(group) > 1
                THEN <<[rule |-> "1", shift_id |-> sids[k],
                        employees |-> [i \in 1..Len(group) |-> group[i].employee_id]]>>
                ELSE <<>>])

\* 2) at most one shift per employee per day (lines 35-38)
Check2(adf) ==
    LET emps == EmpKeys(adf)
    IN  Flatten([k \in 1..Len(emps) |->
            LET eg == EmpGroup(adf, emps[k])
                dates == SortInts({eg[i].shift_date : i \in DOMAIN eg})
            IN  Flatten([j \in 1..Len(dates) |->
                    LET group == SelectSeq(eg, LAMBDA r : r.shift_date = dates[j])
                    IN  IF Len(group) > 1
                        THEN <<[rule |-> "2", emp |-> emps[k], n |-> Len(group),
                                date |-> dates[j],
                                shift_ids |-> [i \in 1..Len(group) |-> group[i].shift_id]]>>
                        ELSE <<>>])])
\* rule 3 without the is_night == False filter on the next day's shifts
Check3BodyAnyNextShift(emp, group) ==
    LET nights == SelectSeq(group, LAMBDA r : r.is_night)
    IN  Flatten([n \in 1..Len(nights) |->
            LET ns == nights[n]
                next_day == ns.shift_date + 1
                next_day_shifts == SelectSeq(group, LAMBDA r : r.shift_date = next_day)
            IN  IF Len(next_day_shifts) > 0
                THEN <<[rule |-> "3", emp |-> emp, next_day |-> next_day,
                        date |-> ns.shift_date]>>
                ELSE <<>>])

\* 3) after a night shift, no day/evening shift the next day (lines 40-48)
Check3Body(emp, group) ==
    LET nights == SelectSeq(group, LAMBDA r : r.is_night)
    IN  Flatten([n \in 1..Len(nights) |->
            LET ns == nights[n]
                next_day == ns.shift_date + 1
                next_day_shifts ==
                    SelectSeq(SelectSeq(group, LAMBDA r : r.shift_date = next_day),
                              LAMBDA r : r.is_night = FALSE)
            IN  IF Len(next_day_shifts) > 0
                THEN <<[rule |-> "3", emp |-> emp, next_day |-> next_day,
                        date |-> ns.shift_date]>>
                ELSE <<>>])
Check3(adf) ==
    LET emps == EmpKeys(adf)
    IN  Flatten([k \in 1..Len(emps) |-> Check3Body(emps[k], EmpGroup(adf, emps[k]))])

\* 4) max work days per week (lines 50-56)
Check4(adf, workers) ==
    LET emps == EmpKeys(adf)
    IN  Flatten([k \in 1..Len(emps) |->
            LET group == EmpGroup(adf, emps[k])
                max_days == WorkerOf(workers, emps[k]).max_days_per_week
                weeks == WeekKeys(group)
            IN  Flatten([j \in 1..Len(weeks) |->
                    LET week_group == SelectSeq(group, LAMBDA r : r.week = weeks[j])
                        worked_days ==
                            Cardinality({week_group[i].shift_date : i \in DOMAIN week_group})
                    IN  IF worked_days > max_days
                        THEN <<[rule |-> "4", emp |-> emps[k], week |-> weeks[j],
                                worked_days |-> worked_days, max_days |-> max_days]>>
                        ELSE <<>>])])

\* num_weeks of rule 5: assignments_df['week'].nunique() (line 59)
NumWeeks5(adf) == Cardinality({adf[i].week : i \in DOMAIN adf})

\* 5) contract hours on average across all weeks (lines 58-68)
Check5(adf, workers) ==
    LET nweeks == NumWeeks5(adf)
        emps == EmpKeys(adf)
    IN  Flatten([k \in 1..Len(emps) |->
            LET group == EmpGroup(adf, emps[k])
                cap_minutes == WorkerOf(workers, emps[k]).contract_minutes
                total_minutes == SumSeq([i \in 1..Len(group) |-> group[i].duration_min])
                allowed_total == cap_minutes * nweeks
            IN  IF total_minutes > allowed_total
                THEN <<[rule |-> "5", emp |-> emps[k], total_minutes |-> total_minutes,
                        allowed_total |-> allowed_total, num_weeks |-> nweeks]>>
                ELSE <<>>])

\* str.lower(), over the availability texts
Lower(t) ==
    CASE t = "Beschikbaar" -> "beschikbaar"
      [] t = "BESCHIKBAAR" -> "beschikbaar"
      [] t = "Niet beschikbaar" -> "niet beschikbaar"
      [] t = "Onbekend" -> "onbekend"
      [] t = "Niet beschikbaar (constant schedule)" -> "niet beschikbaar (constant schedule)"
      [] OTHER -> t

\* the overlap test of rule 6 (line 93)
Overlap6(start_time, end_time, start_unb, end_unb) ==
    ~(end_time <= start_unb \/ start_time >= end_unb)

\* rule 6 for one unavailability row r (lines 72-98)
Check6Row(adf, workers, r) ==
    LET emp == r.Medewerker_id
        emp_shifts == SelectSeq(adf, LAMBDA a : a.employee_id = emp)
    IN  IF emp \notin {workers[i].medewerker_id : i \in DOMAIN workers} THEN <<>>
        ELSE IF Lower(r.Beschikbaarheid) = "beschikbaar" THEN <<>>
        ELSE Flatten([k \in 1..Len(emp_shifts) |->
                LET sr == emp_shifts[k]
                IN  IF sr.shift_date # r.Datum THEN <<>>
                    ELSE IF r.Beschikbaarheid_tijd_vanaf = NaT
                            \/ r.Beschikbaarheid_tijd_tm = NaT
                    THEN <<[rule |-> "6", kind |-> "full", emp |-> emp,
                            date |-> r.Datum, shift_id |-> sr.shift_id]>>
                    ELSE IF Overlap6(sr.start_time, sr.end_time,
                                     r.Beschikbaarheid_tijd_vanaf, r.Beschikbaarheid_tijd_tm)
                    THEN <<[rule |-> "6", kind |-> "partial", emp |-> emp,
                            date |-> r.Datum, shift_id |-> sr.shift_id,
                            start_time |-> sr.start_time, end_time |-> sr.end_time,
                            start_unb |-> r.Beschikbaarheid_tijd_vanaf,
                            end_unb |-> r.Beschikbaarheid_tijd_tm]>>
                    ELSE <<>>])

\* 6) no shifts overlapping with unavailable times (lines 70-98)
Check6(adf, workers, onb) ==
    Flatten([n \in 1..Len(onb) |-> Check6Row(adf, workers, onb[n])])
\* rule 7.1 without the exemption of COA_7_1_exempt
MaxConsecNoExemption(emp) == 5

\* max_consec of rule 7.1 (line 104)
MaxConsec(emp) == IF emp \in COA_7_1_exempt THEN 7 ELSE 5

\* rule 7.1 for one employee (lines 102-108)
Check7_1Body(emp, group) ==
    LET dates == NightDates(group)
        max_consec == MaxConsec(emp)
        is == PyRange(0, Len(dates) - max_consec)
    IN  Flatten([k \in 1..Len(is) |->
            LET i == is[k]
                window == SubSeq(dates, i + 1, i + max_consec + 1)
            IN  IF window[Len(window)] - window[1] = max_consec
                THEN <<[rule |-> "7.1", emp |-> emp, max_consec |-> max_consec,
                        window |-> window]>>
                ELSE <<>>])

\* 7.1) max 5 consecutive nights (lines 100-108)
Check7_1(adf) ==
    LET emps == EmpKeys(adf)
    IN  Flatten([k \in 1..Len(emps) |-> Check7_1Body(emps[k], EmpGroup(adf, emps[k]))])

\* rule 7.2 for one employee (lines 112-126)
Check7_2Body(emp, group) ==
    LET night_dates == NightDates(group)
        is == PyRange(0, Len(night_dates) - 2)
    IN  Flatten([k \in 1..Len(is) |->
            LET i == is[k]
                d0 == night_dates[i + 1]
                d1 == night_dates[i + 2]
                d2 == night_dates[i + 3]
                next_day == d2 + 1
                blocked_days == {next_day, next_day + 1}
                next_shifts == SelectSeq(group, LAMBDA r : r.shift_date \in blocked_days)
            IN  IF d1 = d0 + 1 /\ d2 = d1 + 1
                THEN IF next_day \in Range(night_dates) THEN <<>>
                     ELSE IF Len(next_shifts) > 0
                     THEN <<[rule |-> "7.2", emp |-> emp,
                             shift_ids |-> [j \in 1..Len(next_shifts) |-> next_shifts[j].shift_id],
                             d0 |-> d0, d1 |-> d1, d2 |-> d2]>>
                     ELSE <<>>
                ELSE <<>>])

\* 7.2) after >= 3 consecutive nights, the next 2 days off (lines 110-126)
Check7_2(adf) ==
    LET emps == EmpKeys(adf)
    IN  Flatten([k \in 1..Len(emps) |-> Check7_2Body(emps[k], EmpGroup(adf, emps[k]))])

\* the start weeks rule 7.3 iterates: range(min, max - 12) (line 131)
StartWeeks7_3(shifts) ==
    LET weeks == {shifts[i].week : i \in DOMAIN shifts}
    IN  PyRange(MinOf(weeks), MaxOf(weeks) - 12)

\* 7.3) max 35 nights per 13 weeks (lines 128-134)
Check7_3(adf, shifts) ==
    LET emps == EmpKeys(adf)
        sws == StartWeeks7_3(shifts)
    IN  Flatten([k \in 1..Len(emps) |->
            LET emp_nights == SelectSeq(EmpGroup(adf, emps[k]), LAMBDA r : r.is_night)
            IN  Flatten([j \in 1..Len(sws) |->
                    LET start_week == sws[j]
                        window == SelectSeq(emp_nights,
                                      LAMBDA r : r.week >= start_week /\ r.week < start_week + 13)
                    IN  IF Len(window) > 35
                        THEN <<[rule |-> "7.3", emp |-> emps[k], n |-> Len(window),
                                start_week |-> start_week, end_week |-> start_week + 12]>>
                        ELSE <<>>])])

\* 7.4) age > 55: no night shifts (lines 136-142)
Check7_4(adf, workers) ==
    LET emps == EmpKeys(adf)
    IN  Flatten([k \in 1..Len(emps) |->
            LET group == EmpGroup(adf, emps[k])
                nights == SelectSeq(group, LAMBDA r : r.is_night)
                leeftijd == WorkerOf(workers, emps[k]).leeftijd
            IN  IF emps[k] \in CAO_7_4_exempt THEN <<>>
                ELSE IF leeftijd > 55 /\ Len(nights) > 0
                THEN <<[rule |-> "7.4", emp |-> emps[k], leeftijd |-> leeftijd,
                        shift_ids |-> [i \in 1..Len(nights) |-> nights[i].shift_id]]>>
                ELSE <<>>])

\* 8) qualification match (lines 144-152)
Check8(adf, workers, shifts) ==
    Flatten([n \in 1..Len(adf) |->
        LET row == adf[n]
            required_quals == ShiftLookup(shifts, row.shift_id).qualification
            emp_quals == WorkerOf(workers, row.employee_id).deskundigheid
        IN  IF ~(\E q \in Range(required_quals) : q \in Range(emp_quals))
            THEN <<[rule |-> "8", emp |-> row.employee_id, required |-> required_quals,
                    shift_id |-> row.shift_id]>>
            ELSE <<>>])

\* 9.5) Marlies: max 2 days in a row, then 2 days off (lines 182-199)
Check9_5(adf, emp) ==
    LET mine == EmpGroup(adf, emp)
        blocks == Blocks(SortDates([i \in 1..Len(mine) |-> mine[i].shift_date]))
    IN  Flatten([k \in 1..Len(blocks) |->
            LET b == blocks[k]
                last == b[Len(b)]
                next_shifts == SelectSeq(mine, LAMBDA r : r.shift_date \in {last + 1, last + 2})
            IN  (IF Len(b) > 2 THEN <<[rule |-> "9.5", kind |-> "row", block |-> b]>> ELSE <<>>)
                \o (IF Len(next_shifts) > 0
                    THEN <<[rule |-> "9.5", kind |-> "off", block |-> b]>> ELSE <<>>)])

\* 9.6) Teuna: 7-night / 7-off pattern (lines 202-220)
Check9_6(adf, emp) ==
    LET mine == EmpGroup(adf, emp)
        blocks == Blocks(NightDates(mine))
        present == {adf[i].shift_date : i \in DOMAIN adf}
    IN  Flatten([k \in 1..Len(blocks) |->
            LET b == blocks[k]
                last == b[Len(b)]
                following == {last + i : i \in 1..7} \cap present
                next_shifts == SelectSeq(mine, LAMBDA r : r.shift_date \in following)
            IN  (IF k - 1 \notin {0, Len(blocks) - 1} /\ Len(b) # 7
                 THEN <<[rule |-> "9.6", kind |-> "length", n |-> Len(b), block |-> b]>>
                 ELSE <<>>)
                \o (IF Len(next_shifts) > 0
                    THEN <<[rule |-> "9.6", kind |-> "off", block |-> b]>> ELSE <<>>)])

\* 9.7) Maria: max 3 shifts per week (lines 223-227)
Check9_7(adf, emp) ==
    LET emp_group == EmpGroup(adf, emp)
        weeks == WeekKeys(emp_group)
    IN  Flatten([j \in 1..Len(weeks) |->
            LET week_group == SelectSeq(emp_group, LAMBDA r : r.week = weeks[j])
            IN  IF Len(week_group) > 3
                THEN <<[rule |-> "9.7", n |-> Len(week_group), week |-> weeks[j]]>>
                ELSE <<>>])

\* 9.8) Carolien: max 3 shifts per week, only late or night (lines 230-238)
Check9_8(adf, shifts, emp) ==
    LET emp_group == EmpGroup(adf, emp)
        weeks == WeekKeys(emp_group)
    IN  Flatten([j \in 1..Len(weeks) |->
            LET week_group == SelectSeq(emp_group, LAMBDA r : r.week = weeks[j])
            IN  (IF Len(week_group) > 3
                 THEN <<[rule |-> "9.8", kind |-> "count", n |-> Len(week_group),
                         week |-> weeks[j]]>>
                 ELSE <<>>)
                \o Flatten([i \in 1..Len(week_group) |->
                       LET shift_row == week_group[i]
                           shift_name == ShiftLookup(shifts, shift_row.shift_id).shift_name
                       IN  IF ~HasA(shift_name) /\ ~shift_row.is_night
                           THEN <<[rule |-> "9.8", kind |-> "late",
                                   shift_id |-> shift_row.shift_id, shift_name |-> shift_name]>>
                           ELSE <<>>])])

\* rule 9 for one row of assignments_df (lines 155-238)
Check9Row(adf, shifts, row) ==
    LET emp == row.employee_id
        sid == row.shift_id
        shift == ShiftLookup(shifts, sid)
        date == row.shift_date
        day_of_week == shift.day_of_week
        is_night == shift.is_night
        allowed3888 == (day_of_week = 4 /\ HasA(row.shift_name)) \/ day_of_week \in {5, 6}
    IN  (IF emp = ID_2097 /\ ~is_night
         THEN <<[rule |-> "9.1", shift_id |-> sid, date |-> date]>> ELSE <<>>)
        \o (IF emp = ID_2653 /\ day_of_week \notin {5, 6}
            THEN <<[rule |-> "9.2", shift_id |-> sid, date |-> date]>> ELSE <<>>)
        \o (IF emp = ID_3888 /\ ~allowed3888
            THEN <<[rule |-> "9.3", shift_id |-> sid, date |-> date]>> ELSE <<>>)
        \o (IF emp = ID_601011 /\ day_of_week \in {0, 1, 2}
            THEN <<[rule |-> "9.4", shift_id |-> sid, date |-> date]>> ELSE <<>>)
        \o (IF emp = ID_603722 THEN Check9_5(adf, emp) ELSE <<>>)
        \o (IF emp = ID_602859 THEN Check9_6(adf, emp) ELSE <<>>)
        \o (IF emp = ID_627311 THEN Check9_7(adf, emp) ELSE <<>>)
        \o (IF emp = ID_602056 THEN Check9_8(adf, shifts, emp) ELSE <<>>)

\* 9) employee-specific constraints (lines 154-238)
Check9(adf, shifts) ==
    Flatten([n \in 1..Len(adf) |-> Check9Row(adf, shifts, adf[n])])

\* the list errors holds when validate_auto_rooster reaches its end (lines 12-238)
AllErrors(d, res) ==
    LET adf == DropUnassigned(res.assignments_df)
    IN  Check1(adf) \o Check2(adf) \o Check3(adf) \o Check4(adf, d.workers)
        \o Check5(adf, d.workers) \o Check6(adf, d.workers, d.onb)
        \o Check7_1(adf) \o Check7_2(adf) \o Check7_3(adf, d.shifts)
        \o Check7_4(adf, d.workers) \o Check8(adf, d.workers, d.shifts)
        \o Check9(adf, d.shifts)

\* the value the function hands back: it ends after the prints of lines 240-245
\* without a return statement, so the caller receives None
ReturnValue(errs) == PyNone

\* validate_auto_rooster(data, result), called at web/app.py line 77
Validate ==
    /\ pc = "validate"
    /\ errors' = AllErrors(data, result)
    /\ returned' = ReturnValue(errors')
    /\ pc' = "validated"
    /\ UNCHANGED <<df_werknemers, df_onb, prev_assignments, df_vastrooster,
                   num_weeks, today, data, result, response>>

\* Python's truth value of what validate_auto_rooster returned
Truthy(v) == ~v.none /\ Len(v.rows) > 0

\* generate_schedule after the validator returned (web/app.py lines 78-98)
Respond ==
    /\ pc = "validated"
    /\ response' = IF Truthy(returned) THEN "failed" ELSE "success"
    /\ pc' = "responded"
    /\ UNCHANGED <<df_werknemers, df_onb, prev_assignments, df_vastrooster,
                   num_weeks, today, data, result, errors, returned>>

-----------------------------------------------------------------------------
(* The optimizer's result (app/solver.py is outside the sources): one row  *)
(* per assignment, with the shift's attributes copied in.                  *)

\* a row of assignments_df: shift s given to emp (NA: left unfilled)
AssignmentRow(s, emp) ==
    [shift_id |-> s.shift_id, employee_id |-> emp, shift_date |-> s.shift_date,
     week |-> s.week, duration_min |-> s.duration_min, shift_name |-> s.shift_name,
     is_night |-> s.is_night, start_time |-> s.start_time, end_time |-> s.end_time,
     shift_filled |-> (emp # NA)]

\* assignments_df for a set of <<shift_id, employee>> pairs, ordered by shift id
AssignmentsOf(shifts, pairs) ==
    LET sids == SortInts({p[1] : p \in pairs})
    IN  Flatten([k \in 1..Len(sids) |->
            LET emps == SortIds({p[2] : p \in {q \in pairs : q[1] = sids[k]}})
            IN  [j \in 1..Len(emps) |->
                    AssignmentRow(ShiftLookup(shifts, sids[k]), emps[j])]])

-----------------------------------------------------------------------------
(* Bounds of the model and the inputs drawn within them.                   *)

\* the longest horizon of the preprocessing runs, in weeks
MaxWeeks == 2
\* the days prior assignments span
PrevSpan == 7
\* the largest raw qualification code
MaxCode == 130
\* the most rows of a fixed-commitment table
MaxVast == 2
\* the most rows of a small proposal
MaxRows == 3
\* the days a night pattern spans
NightDays == 9
\* the most night shifts a prior period ends with
MaxPrevNights == 4
\* the most night shifts a continued proposal begins with
MaxFirstNights == 4

\* the day number of the first Monday used; dates before it stay non-negative
Day0 == 7 * 10

Today(d) == [day |-> d, year |-> 2025, month |-> 6, dom |-> 15]

ID_100 == <<"1", "0", "0">>
ID_200 == <<"2", "0", "0">>

\* a raw roster row
RawWorker(id, code, soort, uren, maxd, born) ==
    [medewerker_id |-> id, wensen |-> "", deskundigheid |-> code,
     contract_soort |-> soort, contracturen |-> uren, max_werkdgn_pw |-> maxd,
     geboortedatum |-> born]

Born1990 == [year |-> 1990, month |-> 3, dom |-> 1]
Born1960 == [year |-> 1960, month |-> 9, dom |-> 1]

\* a raw unavailability row
RawOnb(id, date, text, from, to) ==
    [Medewerker_id |-> id, Datum_beschikbaarheid |-> date, Beschikbaarheid |-> text,
     Beschikbaarheid_tijd_vanaf_raw |-> from, Beschikbaarheid_tijd_tm_raw |-> to]

\* a prior assignment row: a night shift of worker 100 read from a CSV
PrevRow(d) ==
    [employee_id |-> <<"1", "0", "0", ".", "0">>, shift_date |-> d,
     shift_name |-> "N", is_night |-> TRUE]

\* a state in which generate_schedule is about to call preprocess_data
StartPreprocess(roster, onb, prev, vast, nw, t) ==
    /\ pc = "preprocess"
    /\ df_werknemers = roster
    /\ df_onb = onb
    /\ prev_assignments = prev
    /\ df_vastrooster = vast
    /\ num_weeks = nw
    /\ today = t
    /\ data = NoData
    /\ result = NoResult
    /\ errors = <<>>
    /\ returned = PyNone
    /\ response = "none"

\* a state in which generate_schedule is about to call validate_auto_rooster:
\* d is what preprocess_data returned for the inputs, adf what the optimizer
\* assigned
StartValidate(roster, onb, nw, d, adf) ==
    /\ pc = "validate"
    /\ df_werknemers = roster
    /\ df_onb = onb
    /\ prev_assignments = PyNone
    /\ df_vastrooster = PyNone
    /\ num_weeks = nw
    /\ today = Today(Day0)
    /\ data = d
    /\ result = [assignments_df |-> adf]
    /\ errors = <<>>
    /\ returned = PyNone
    /\ response = "none"

BaseRoster == <<RawWorker(<<"0", "1", "0", "0">>, 2, "vast", 3600, 5, Born1990)>>

\* preprocessing runs over prior histories, horizons and weekdays of today
InitCalendar ==
    \E nw \in 1..MaxWeeks :
        \/ \E d \in 0..6, prev \in {PyNone, Frame(<<>>)} :
              StartPreprocess(BaseRoster, <<>>, prev, PyNone, nw, Today(Day0 + d))
        \/ \E D \in SUBSET (0..(PrevSpan - 1)) :
              /\ D # {}
              /\ StartPreprocess(BaseRoster, <<>>,
                     Frame([i \in 1..Cardinality(D) |-> PrevRow(Day0 + SortInts(D)[i])]),
                     PyNone, nw, Today(Day0))

\* the fixed-commitment rows drawn: rows that match a reference shift or not
\* (FM is inactive on Friday), the same shift in two weeks, a worker who is
\* not on the roster, a day name that is no key of the day map, and a shift
\* name that is no administrative shift
VastRows ==
    [medewerker_id : {<<"0", "1", "0", "0", "-", "1">>},
     dag : {"maandag", "vrijdag"},
     dienst : {"KOK", "FM"},
     weekvolgnr : {1}]
    \cup {[medewerker_id |-> ID_100, dag |-> "maandag", dienst |-> "KOK", weekvolgnr |-> 2],
          [medewerker_id |-> ID_200, dag |-> "maandag", dienst |-> "KOK", weekvolgnr |-> 1],
          [medewerker_id |-> ID_100, dag |-> "Zondag", dienst |-> "KOK", weekvolgnr |-> 1],
          [medewerker_id |-> ID_100, dag |-> "maandag", dienst |-> "D1", weekvolgnr |-> 1]}

\* the KOK shift on Monday as a fixed commitment of worker 100
VastRows1 == [medewerker_id |-> ID_100, dag |-> "maandag", dienst |-> "KOK", weekvolgnr |-> 1]

VastTables ==
    {PyNone, Frame(<<>>)}
    \cup {Frame(t) : t \in UNION {[1..n -> VastRows] : n \in 1..MaxVast}}

\* preprocessing runs over contracts and fixed commitments
InitContracts ==
    \E soort \in {"oproep", "vast"}, uren \in {NaN, 400, 3600},
       maxd \in {NaN, 3}, vast \in VastTables :
        StartPreprocess(<<RawWorker(<<"0", "1", "0", "0">>, 2, soort, uren, maxd, Born1990)>>,
                        <<>>, PyNone, vast, 1, Today(Day0))

\* preprocessing runs over fixed commitments in the weeks of a longer horizon
InitCommitments ==
    \E vast \in VastTables :
        StartPreprocess(BaseRoster, <<>>, PyNone, vast, 2, Today(Day0))

\* the raw spellings of worker ids drawn: leading zeros and a suffix after
\* the separator
RawIds == {<<"0", "1", "0", "0">>, <<"1", "0", "0", "-", "1">>, ID_100, ID_200}

\* preprocessing runs over rosters of two rows and their raw ids
InitRosters ==
    \E id1 \in RawIds, id2 \in RawIds, vast \in {PyNone, Frame(<<VastRows1>>)} :
        StartPreprocess(<<RawWorker(id1, 2, "vast", 3600, 5, Born1990),
                          RawWorker(id2, 3, "vast", 1600, 3, Born1960)>>,
                        <<>>, PyNone, vast, 1, Today(Day0))

\* preprocessing runs over raw qualification codes
InitCodes ==
    \E code \in 0..MaxCode, other \in {2, 5, 37} :
        StartPreprocess(<<RawWorker(ID_100, code, "vast", 3600, 5, Born1990),
                          RawWorker(ID_200, other, "vast", 3600, 5, Born1960)>>,
                        <<>>, PyNone, PyNone, 1, Today(Day0))

\* the data preprocess_data returns for a roster and declared unavailability
\* on a horizon of nw weeks that starts on Day0, with no prior history
DataFor(roster, onb, nw) ==
    PreprocessData(roster, onb, PyNone, PyNone, nw, Today(Day0))

\* the shift of a name on a day of the horizon
ShiftOn(shifts, name, day) ==
    shifts[CHOOSE i \in DOMAIN shifts :
               shifts[i].shift_name = name /\ shifts[i].absolute_day = day].shift_id

TwoWorkers ==
    <<RawWorker(ID_100, 2, "vast", 3600, 5, Born1990),
      RawWorker(ID_200, 3, "vast", 800, 1, Born1960)>>

\* the sets of at most n elements of S
UpTo(S, n) == {{}} \cup UNION {{Range(f) : f \in [1..k -> S]} : k \in 1..n}

DataSmall == DataFor(TwoWorkers, <<>>, 1)

\* validator runs over small proposals: up to MaxRows rows over three shift
\* types and two days, two workers and unfilled rows
InitSmall ==
    \E pairs \in UpTo({<<ShiftOn(DataSmall.shifts, n, day), e>> :
                         n \in {"D1", "A1", "N"}, day \in 0..1, e \in {ID_100, ID_200}}
                      \cup {<<ShiftOn(DataSmall.shifts, "N", 0), NA>>,
                            <<ShiftOn(DataSmall.shifts, "D1", 1), NA>>},
                      MaxRows) :
        StartValidate(TwoWorkers, <<>>, 1, DataSmall, AssignmentsOf(DataSmall.shifts, pairs))

\* contract hours of the cap runs, in hundredths of an hour
CapHours == <<400, 833, 1600, 3600>>

CapRoster(uren) ==
    <<RawWorker(ID_100, 2, "vast", uren, 5, Born1990),
      RawWorker(ID_200, 2, "oproep", NaN, NaN, Born1990)>>

\* the data of the cap runs, by horizon length and contract; concatenation
\* makes the sequences explicit values
DataCaps ==
    [nw \in 1..MaxWeeks |->
        [c \in 1..Len(CapHours) |-> DataFor(CapRoster(CapHours[c]), <<>>, nw)] \o <<>>] \o <<>>

\* validator runs over contract caps and the weeks that hold filled shifts
InitCaps ==
    \E c \in 1..Len(CapHours), nw \in 1..MaxWeeks :
        \E pairs \in SUBSET
               ({<<ShiftOn(DataCaps[nw][c].shifts, n, day), ID_100>> :
                    n \in {"D1", "A3"}, day \in {x \in {0, 1, 7} : x < 7 * nw}}
                \cup {<<ShiftOn(DataCaps[nw][c].shifts, "N", 7 * (nw - 1)), ID_200>>}) :
            StartValidate(CapRoster(CapHours[c]), <<>>, nw, DataCaps[nw][c],
                          AssignmentsOf(DataCaps[nw][c].shifts, pairs))

\* the raw time windows drawn: none, one bound only, and windows around the
\* day, evening and night shifts
Windows ==
    {<<<<>>, <<>>>>, <<<<9, 0>>, <<>>>>, <<<<0, 0>>, <<7, 0>>>>, <<<<6, 0>>, <<8, 0>>>>,
     <<<<15, 0>>, <<16, 0>>>>, <<<<23, 0>>, <<23, 30>>>>, <<<<22, 0>>, <<22, 45>>>>,
     <<<<0, 0>>, <<23, 59>>>>}

\* the declared unavailability drawn: one record, or that and a full day
OnbTables ==
    {<<RawOnb(id, date, text, w[1], w[2])>> \o extra :
        id \in {ID_100, ID_200}, date \in {Day0, Day0 + 1},
        text \in {"Beschikbaar", "Niet beschikbaar", "NaN"}, w \in Windows,
        extra \in {<<>>, <<RawOnb(ID_100, Day0, "Niet beschikbaar", <<>>, <<>>)>>}}

\* validator runs over declared unavailability; the unavailability decides
\* no other table of the data
InitUnavailable ==
    \E onb \in OnbTables :
        \E pairs \in SUBSET {<<ShiftOn(DataSmall.shifts, n, 0), ID_100>> :
                               n \in {"D1", "A1", "N"}} :
            /\ pairs # {}
            /\ StartValidate(TwoWorkers, onb, 1, [DataSmall EXCEPT !.onb = OnbOut(onb)],
                             AssignmentsOf(DataSmall.shifts, pairs))

NightRoster ==
    <<RawWorker(ID_100, 2, "vast", 3600, 7, Born1990),
      RawWorker(ID_602859, 2, "vast", 3600, 7, Born1960)>>

DataNights == DataFor(NightRoster, <<>>, 2)

\* validator runs over night patterns of one worker, with or without a day
\* shift after them
InitNights ==
    \E emp \in {ID_100, ID_602859}, N \in SUBSET (0..(NightDays - 1)),
       extra \in {-1, 4, NightDays} :
        /\ N # {}
        /\ StartValidate(NightRoster, <<>>, 2, DataNights,
               AssignmentsOf(DataNights.shifts,
                   {<<ShiftOn(DataNights.shifts, "N", n), emp>> : n \in N}
                   \cup (IF extra >= 0
                         THEN {<<ShiftOn(DataNights.shifts, "D1", extra), emp>>} ELSE {})))

LongRoster == <<RawWorker(ID_100, 2, "vast", 3600, 7, Born1990)>>

\* the data of the long runs, for 13 and for 14 weeks
DataLong == [i \in 1..2 |-> DataFor(LongRoster, <<>>, 12 + i)] \o <<>>

\* validator runs over one long block of nights on a horizon of 13 or 14 weeks
InitLong ==
    \E nw \in {13, 14}, len \in {35, 36} :
        \E first \in 0..(7 * nw - len) :
            StartValidate(LongRoster, <<>>, nw, DataLong[nw - 12],
                AssignmentsOf(DataLong[nw - 12].shifts,
                    {<<ShiftOn(DataLong[nw - 12].shifts, "N", first + k), ID_100>> :
                        k \in 0..(len - 1)}))

ContinuedRoster ==
    <<RawWorker(ID_100, 2, "vast", 3600, 7, Born1990),
      RawWorker(ID_200, 2, "vast", 3600, 7, Born1990)>>

\* prior assignments of worker 100: k night shifts on the days from Day0
PrevNights(k) == Frame([i \in 1..k |-> PrevRow(Day0 + i - 1)])

\* the data of the continued runs, by the number of prior night shifts
DataContinued ==
    [k \in 1..MaxPrevNights |->
        PreprocessData(ContinuedRoster, <<>>, PrevNights(k), PyNone, 1, Today(Day0))] \o <<>>

\* validator runs over proposals that continue a prior period: a worker gets
\* the night shifts of the first m days of the horizon, with or without a
\* day shift on one of the 2 days after them
InitContinued ==
    \E k \in 1..MaxPrevNights, m \in 0..MaxFirstNights, emp \in {ID_100, ID_200},
       extra \in {-1, 0, 1} :
        /\ pc = "validate"
        /\ df_werknemers = ContinuedRoster
        /\ df_onb = <<>>
        /\ prev_assignments = PrevNights(k)
        /\ df_vastrooster = PyNone
        /\ num_weeks = 1
        /\ today = Today(Day0)
        /\ data = DataContinued[k]
        /\ result = [assignments_df |->
               AssignmentsOf(DataContinued[k].shifts,
                   {<<ShiftOn(DataContinued[k].shifts, "N", n), emp>> : n \in 0..(m - 1)}
                   \cup (IF extra >= 0
                         THEN {<<ShiftOn(DataContinued[k].shifts, "D1", m + extra), emp>>}
                         ELSE {}))]
        /\ errors = <<>>
        /\ returned = PyNone
        /\ response = "none"

\* the runs of the preprocessing stage
InitPre ==
    \/ InitCalendar
    \/ InitContracts
    \/ InitCommitments
    \/ InitRosters
    \/ InitCodes

\* the runs of the validator
InitVal ==
    \/ InitSmall
    \/ InitCaps
    \/ InitUnavailable
    \/ InitNights
    \/ InitLong
    \/ InitContinued

Init ==
    \/ InitPre
    \/ InitVal

NextVal ==
    \/ Validate
    \/ Respond

Next ==
    \/ Preprocess
    \/ Validate
    \/ Respond

\* every run
Spec == Init /\ [][Next]_vars

\* preprocess_data on the drawn inputs
SpecPre == InitPre /\ [][Preprocess]_vars

\* validate_auto_rooster and its caller, by the proposals drawn
SpecSmall == InitSmall /\ [][NextVal]_vars
SpecCaps == InitCaps /\ [][NextVal]_vars
SpecUnavailable == InitUnavailable /\ [][NextVal]_vars
SpecNights == InitNights /\ [][NextVal]_vars
SpecLong == InitLong /\ [][NextVal]_vars
SpecContinued == InitContinued /\ [][NextVal]_vars

-----------------------------------------------------------------------------
(* The claims about the validator.                                         *)

\* the validator has returned
Validated == pc \in {"validated", "responded"}

\* the filled rows of the proposal
FilledRows == SelectSeq(result.assignments_df, LAMBDA r : r.employee_id # NA)

\* the workers of the canonical model
WorkerIds == {data.workers[i].medewerker_id : i \in DOMAIN data.workers}

\* how many messages of errors satisfy P
CountErrors(P(_)) == Cardinality({i \in DOMAIN errors : P(errors[i])})

\* the filled rows of a worker that satisfy P
RowsOf(emp, P(_)) ==
    {i \in DOMAIN FilledRows : FilledRows[i].employee_id = emp /\ P(FilledRows[i])}

\* C1: validate_auto_rooster returns the complete ordered list of the
\* violation messages it found: the returned value is empty when no rule is
\* violated, it is the list of every message otherwise, and the caller
\* answers "success" only for a proposal without violations.
C1_ReturnsEveryViolation ==
    /\ Validated =>
         /\ errors = <<>> => ~Truthy(returned)
         /\ errors # <<>> => returned = Frame(errors)
    /\ pc = "responded" => (response = "success" <=> errors = <<>>)

\* the minutes assigned to a worker over the whole proposal
TotalMinutes(emp) ==
    LET mine == SelectSeq(FilledRows, LAMBDA r : r.employee_id = emp)
    IN  SumSeq([i \in 1..Len(mine) |-> mine[i].duration_min])

\* the contract-minute cap of a worker
CapOf(emp) ==
    (CHOOSE w \in Range(data.workers) : w.medewerker_id = emp).contract_minutes

\* C2: rule R5 reports exactly one violation for a worker if and only if
\* the worker's total assigned minutes exceed the contract-minute cap times
\* the number of weeks of the horizon, whichever weeks hold filled shifts.
C2_AverageCapOverHorizon ==
    Validated =>
        \A emp \in WorkerIds :
            CountErrors(LAMBDA e : e.rule = "5" /\ e.emp = emp)
              = IF TotalMinutes(emp) > CapOf(emp) * num_weeks THEN 1 ELSE 0

\* the end of a shift in minutes after the midnight its date begins with: a
\* shift that ends at or before its start time ends on the next day
ShiftEnd(r) == IF r.end_time <= r.start_time THEN r.end_time + 24 * 60 ELSE r.end_time

\* the half-open windows [s1, e1) and [s2, e2) intersect
Intersects(s1, e1, s2, e2) == s1 < e2 /\ s2 < e1

\* the rule-6 messages the claim asks for, for one unavailability record
ExpectedFor6(r) ==
    LET rows == SelectSeq(FilledRows,
                    LAMBDA a : a.employee_id = r.Medewerker_id /\ a.shift_date = r.Datum)
    IN  IF Lower(r.Beschikbaarheid) = "beschikbaar" THEN <<>>
        ELSE Flatten([k \in 1..Len(rows) |->
                IF r.Beschikbaarheid_tijd_vanaf = NaT \/ r.Beschikbaarheid_tijd_tm = NaT
                THEN <<[emp |-> r.Medewerker_id, date |-> r.Datum,
                        shift_id |-> rows[k].shift_id]>>
                ELSE IF Intersects(rows[k].start_time, ShiftEnd(rows[k]),
                                   r.Beschikbaarheid_tijd_vanaf, r.Beschikbaarheid_tijd_tm)
                THEN <<[emp |-> r.Medewerker_id, date |-> r.Datum,
                        shift_id |-> rows[k].shift_id]>>
                ELSE <<>>])

\* the rule-6 messages of errors, as worker, date and shift
Reported6 ==
    LET six == SelectSeq(errors, LAMBDA e : e.rule = "6")
    IN  [i \in 1..Len(six) |->
            [emp |-> six[i].emp, date |-> six[i].date, shift_id |-> six[i].shift_id]]

\* every record states that the worker is available or is not
StatusesKnown ==
    \A n \in DOMAIN data.onb : Lower(data.onb[n].Beschikbaarheid) # "onbekend"

\* C3: rule R6 reports, for every non-available record of a worker on a
\* date and every shift of that worker on that date, one violation when the
\* record has no time window, and with a window one violation if and only
\* if the shift's time window intersects it; nothing else is reported.
C3_UnavailabilityOverlap ==
    (Validated /\ StatusesKnown) =>
        Reported6 = Flatten([n \in 1..Len(data.onb) |-> ExpectedFor6(data.onb[n])])

\* the dates on which a worker has a night shift
NightSet(emp) ==
    {FilledRows[i].shift_date : i \in RowsOf(emp, LAMBDA r : r.is_night)}

\* the maximal runs <<first, last>> of consecutive dates of a set of dates
RunsOf(D) ==
    {<<a, b>> \in D \X D :
        /\ a <= b
        /\ \A d \in a..b : d \in D
        /\ a - 1 \notin D
        /\ b + 1 \notin D}

\* the cap of rule R7.1 for a worker
NightCap(emp) == IF emp = ID_602859 THEN 7 ELSE 5

\* the rule-7.1 messages for a worker whose window lies in the run
Flags7_1(emp, run) ==
    CountErrors(LAMBDA e : e.rule = "7.1" /\ e.emp = emp
                           /\ e.window[1] >= run[1] /\ e.window[1] <= run[2])

\* C4 as stated: exactly one R7.1 violation for every run of consecutive
\* night dates longer than the worker's cap, and none for the other runs.
C4_OneFlagPerRun ==
    Validated =>
        \A emp \in WorkerIds : \A run \in RunsOf(NightSet(emp)) :
            Flags7_1(emp, run) = IF run[2] - run[1] + 1 > NightCap(emp) THEN 1 ELSE 0

\* C4 as amended: a run of L consecutive night dates longer than the
\* worker's cap is reported L - cap times, once for every window of cap + 1
\* consecutive nights in it, and a run within the cap is not reported.
C4_OneFlagPerExcessDay ==
    Validated =>
        \A emp \in WorkerIds : \A run \in RunsOf(NightSet(emp)) :
            LET L == run[2] - run[1] + 1
            IN  Flags7_1(emp, run) = IF L > NightCap(emp) THEN L - NightCap(emp) ELSE 0

\* a run of the exempt worker two days over the cap of 7 has been validated
C4_Witness ==
    /\ Validated
    /\ \E run \in RunsOf(NightSet(ID_602859)) : run[2] - run[1] + 1 = 9
    /\ CountErrors(LAMBDA e : e.rule = "7.1" /\ e.emp = ID_602859) = 2

\* the night shifts of a worker in the 13 weeks from week w
NightsInWindow(emp, w) ==
    Cardinality(RowsOf(emp, LAMBDA r : r.is_night /\ r.week >= w /\ r.week <= w + 12))

\* C5: rule R7.3 reports a violation for a worker and a window of 13
\* consecutive weeks within the evaluated weeks, the last window included,
\* if and only if the worker has more than 35 night shifts in the window.
C5_EveryWindowOf13Weeks ==
    Validated =>
        \A emp \in WorkerIds : \A w \in 1..num_weeks :
            w + 12 <= num_weeks =>
                ((\E i \in DOMAIN errors :
                      errors[i].rule = "7.3" /\ errors[i].emp = emp
                      /\ errors[i].start_week = w)
                 <=> NightsInWindow(emp, w) > 35)

\* the dates of the horizon
HorizonDates == {data.shifts[i].shift_date : i \in DOMAIN data.shifts}

\* C6: a worker with a night shift on date D and at least one non-night
\* shift on D + 1 gets exactly one R3 violation for that night, naming the
\* worker, D and D + 1; a night followed on D + 1 only by a night shift or
\* by no shift gets none, and R3 reports nothing else.
C6_NightThenDay ==
    Validated =>
        /\ \A emp \in WorkerIds : \A D \in HorizonDates :
              CountErrors(LAMBDA e : e.rule = "3" /\ e.emp = emp /\ e.date = D
                                     /\ e.next_day = D + 1)
                = IF /\ RowsOf(emp, LAMBDA r : r.is_night /\ r.shift_date = D) # {}
                     /\ RowsOf(emp, LAMBDA r : ~r.is_night /\ r.shift_date = D + 1) # {}
                  THEN 1 ELSE 0
        /\ \A i \in DOMAIN errors :
              errors[i].rule = "3" => errors[i].next_day = errors[i].date + 1

\* a night on D with two non-night shifts on D + 1 has been validated and
\* reported once
C6_Witness ==
    /\ Validated
    /\ \E emp \in WorkerIds : \E D \in HorizonDates :
          /\ RowsOf(emp, LAMBDA r : r.is_night /\ r.shift_date = D) # {}
          /\ Cardinality(RowsOf(emp, LAMBDA r : ~r.is_night /\ r.shift_date = D + 1)) = 2
          /\ CountErrors(LAMBDA e : e.rule = "3" /\ e.emp = emp) = 1

-----------------------------------------------------------------------------
(* The claims about preprocessing.                                         *)

\* preprocess_data has returned
Preprocessed == pc = "preprocessed"

\* the roster and the fixed-commitment table are in the domain of the claim
ContractInputsValid ==
    \A i \in DOMAIN df_werknemers :
        /\ df_werknemers[i].contracturen = NaN \/ df_werknemers[i].contracturen >= 0
        /\ df_werknemers[i].max_werkdgn_pw >= 0

\* C7: every worker record preprocess_data returns has contract_minutes >= 0
\* for every roster with contract hours >= 0 or missing and max days per
\* week >= 0, and every fixed-commitment table.
C7_ContractMinutesNotNegative ==
    (Preprocessed /\ ContractInputsValid) =>
        \A i \in DOMAIN data.workers : data.workers[i].contract_minutes >= 0

\* the decimal digits of a raw qualification code
DigitSet(code) ==
    {(code \div m) % 10 : m \in {x \in {1, 10, 100, 1000} : x = 1 \/ x <= code}}

\* C8: no worker record holds qualification 5 or 6, every record that holds
\* 7 holds 3, and a raw row whose digits include 5 or 6 yields no record.
C8_QualificationSets ==
    Preprocessed =>
        /\ \A i \in DOMAIN data.workers :
              LET q == Range(data.workers[i].deskundigheid)
              IN  5 \notin q /\ 6 \notin q /\ (7 \in q => 3 \in q)
        /\ \A i \in DOMAIN df_werknemers :
              DigitSet(df_werknemers[i].deskundigheid) \cap {5, 6} # {} =>
                  \A k \in DOMAIN data.workers :
                      data.workers[k].medewerker_id
                        # CanonicalId(df_werknemers[i].medewerker_id)

\* a packed code with 7 and without 3 became a record that holds 3, next to
\* a row dropped for qualification 5
C8_Witness ==
    /\ Preprocessed
    /\ Len(df_werknemers) = 2
    /\ DigitSet(df_werknemers[1].deskundigheid) = {1, 2, 7}
    /\ df_werknemers[2].deskundigheid = 5
    /\ Len(data.workers) = 1
    /\ Range(data.workers[1].deskundigheid) = {1, 2, 3, 7}

\* the first date of the horizon
HorizonStart == MinOf({data.shifts[i].shift_date : i \in DOMAIN data.shifts})

\* C9: without prior-period assignments the returned prev_assignments is a
\* look-back of 4 weeks: one record for every assignable shift of each of
\* the 4 weeks, dated in the 28 days before the horizon start, with an unset
\* worker and the global_week of the horizon 4 weeks later minus 4.
C9_SynthesizedLookBack ==
    (Preprocessed /\ ~HasRows(prev_assignments)) =>
        LET back == data.prev_assignments
            per_week == Cardinality({i \in DOMAIN data.shifts : data.shifts[i].week = 1})
        IN  /\ Len(back) = 4 * per_week
            /\ \A i \in DOMAIN back :
                  /\ back[i].shift_date >= HorizonStart - 28
                  /\ back[i].shift_date < HorizonStart
                  /\ back[i].employee_id = NA
                  /\ back[i].global_week
                       = ((back[i].shift_date + 28 - HorizonStart) \div 7) + 1 - 4

\* the records of both populations, as date and global_week
WeekRecords ==
    {<<data.prev_assignments[i].shift_date, data.prev_assignments[i].global_week>> :
        i \in DOMAIN data.prev_assignments}
    \cup {<<data.shifts[i].shift_date, data.shifts[i].global_week>> : i \in DOMAIN data.shifts}

\* the 7-day week of a date, counted from the Monday of the week of the
\* earliest date of both populations
EpochWeek(d) ==
    LET first == MinOf({r[1] : r \in WeekRecords})
    IN  (d - (first - (first % 7))) \div 7

\* C10: global_week is one index over prior-period assignments and horizon
\* shifts: it is monotone in the date, equal for two records of the same
\* epoch-aligned week, and differs by exactly 1 between adjacent weeks.
C10_OneWeekIndex ==
    Preprocessed =>
        \A r1, r2 \in WeekRecords :
            /\ r1[1] <= r2[1] => r1[2] <= r2[2]
            /\ EpochWeek(r1[1]) = EpochWeek(r2[1]) => r1[2] = r2[2]
            /\ EpochWeek(r2[1]) = EpochWeek(r1[1]) + 1 => r2[2] = r1[2] + 1

-----------------------------------------------------------------------------
(* The claims about the fixed commitments.                                 *)

\* the rows of the fixed-commitment table given to preprocess_data
VastGiven == IF HasRows(df_vastrooster) THEN df_vastrooster.rows ELSE <<>>

\* the template rows of the administrative shift a fixed-commitment row names
\* that are active on the weekday the row names
ReferenceOf(row) ==
    {k \in DOMAIN shift_requirements :
        /\ shift_requirements[k].shift_name \in AdminShifts
        /\ shift_requirements[k].shift_name = row.dienst
        /\ shift_requirements[k].day_of_week = DayMapConst(row.dag)}

\* the fixed-commitment rows that match a reference administrative shift
MatchedRows == {i \in DOMAIN VastGiven : ReferenceOf(VastGiven[i]) # {}}

\* C11: a fixed-commitment row that matches no reference administrative
\* shift is skipped: the merged unavailability set holds the declared records
\* and one record for every matched row only, and a table without a matched
\* row leaves every worker's contract_minutes as the roster gives them.
C11_UnmatchedRowSkipped ==
    Preprocessed =>
        /\ Len(data.onb) = Len(df_onb) + Cardinality(MatchedRows)
        /\ MatchedRows = {} =>
              \A i \in DOMAIN data.workers :
                  data.workers[i].contract_minutes
                    = NormalizeWorkers(df_werknemers, today)[i].contract_minutes

\* the date a fixed-commitment row resolves to
ResolvedDate(row) == HorizonStart + (row.weekvolgnr - 1) * 7 + DayMapConst(row.dag)

\* C12: every fixed-commitment row that matches a reference administrative
\* shift has, in the unavailability set preprocess_data returns, a record
\* of its worker without a time window, with a non-available status and
\* dated on the row's resolved date.
C12_MatchedRowBlocksDate ==
    Preprocessed =>
        \A i \in MatchedRows :
            \E n \in DOMAIN data.onb :
                /\ data.onb[n].Medewerker_id = CanonicalId(VastGiven[i].medewerker_id)
                /\ data.onb[n].Datum = ResolvedDate(VastGiven[i])
                /\ Lower(data.onb[n].Beschikbaarheid) # "beschikbaar"
                /\ data.onb[n].Beschikbaarheid_tijd_vanaf = NaT
                /\ data.onb[n].Beschikbaarheid_tijd_tm = NaT

\* the minutes of the administrative shift a matched row names
MatchedMinutes(row) ==
    LET k == CHOOSE k \in ReferenceOf(row) : TRUE
    IN  RoundDiv(shift_requirements[k].duration * 60, 100)

\* the minutes of the matched fixed-commitment rows of a worker, row by row
CommittedMinutes(emp) ==
    SumSeq([i \in 1..Len(VastGiven) |->
        IF i \in MatchedRows /\ CanonicalId(VastGiven[i].medewerker_id) = emp
        THEN MatchedMinutes(VastGiven[i]) ELSE 0])

\* no fixed-commitment row is given twice, and every row names a week of
\* the horizon
VastRowsDiffer ==
    /\ \A i, j \in DOMAIN VastGiven : VastGiven[i] = VastGiven[j] => i = j
    /\ \A i \in DOMAIN VastGiven : VastGiven[i].weekvolgnr <= num_weeks

\* C13: the amount subtracted from a worker's contract_minutes is the sum
\* of the durations of the administrative shifts of the worker's matched
\* fixed-commitment rows, every row counted once, also when rows of the
\* worker name the same shift and weekday in different weeks.
C13_SubtractsEveryMatchedRow ==
    (Preprocessed /\ VastRowsDiffer) =>
        \A i \in DOMAIN data.workers :
            NormalizeWorkers(df_werknemers, today)[i].contract_minutes
              - data.workers[i].contract_minutes
              = CommittedMinutes(data.workers[i].medewerker_id)

-----------------------------------------------------------------------------
(* The claims about worker ids, continuity and weekdays.                   *)

\* two raw roster rows have the same canonical id
RosterAmbiguous ==
    \E i, j \in DOMAIN df_werknemers :
        /\ i # j
        /\ CanonicalId(df_werknemers[i].medewerker_id)
             = CanonicalId(df_werknemers[j].medewerker_id)

\* C14: preprocess_data returns no canonical model for a roster with two
\* rows of the same canonical id, and in every model it returns each id
\* occurs in one worker record and emp_index maps it to that record's ordinal.
C14_OneRecordPerWorkerId ==
    Preprocessed =>
        /\ RosterAmbiguous => data = NoData
        /\ data # NoData =>
              \A i, j \in DOMAIN data.workers :
                  /\ data.workers[i].medewerker_id = data.workers[j].medewerker_id => i = j
                  /\ data.emp_index[data.workers[i].medewerker_id] = i - 1

\* the dates of the prior night shifts of a worker
PriorNightSet(emp) ==
    {data.prev_assignments[i].shift_date :
        i \in {j \in DOMAIN data.prev_assignments :
                  /\ data.prev_assignments[j].employee_id = emp
                  /\ data.prev_assignments[j].is_night}}

\* the consecutive prior night shifts of a worker that end on the day before
\* the horizon starts
TrailingNights(emp) ==
    MaxOf({k \in 0..Len(data.prev_assignments) :
              \A d \in 1..k : HorizonStart - d \in PriorNightSet(emp)})

\* the consecutive night shifts of a worker the proposal starts with
LeadingNights(emp) ==
    MaxOf({m \in 0..Len(FilledRows) :
              \A d \in 0..(m - 1) : HorizonStart + d \in NightSet(emp)})

\* the worker has an assignment on one of the 2 dates after the first
\* m dates of the horizon
WorksAfter(emp, m) ==
    RowsOf(emp, LAMBDA r : r.shift_date \in {HorizonStart + m, HorizonStart + m + 1}) # {}

\* C15: k prior night shifts up to the day before the horizon and night
\* shifts on the first m dates of the horizon count as one run of k + m:
\* R7.1 is reported when k + m exceeds the cap, and R7.2 when k + m >= 3 and
\* the worker has an assignment on one of the 2 dates after the run.
C15_RunContinuesPriorPeriod ==
    Validated =>
        \A emp \in WorkerIds :
            LET k == TrailingNights(emp)
                m == LeadingNights(emp)
            IN  (k >= 1 /\ m >= 1) =>
                    /\ k + m > NightCap(emp) =>
                          CountErrors(LAMBDA e : e.rule = "7.1" /\ e.emp = emp) >= 1
                    /\ (k + m >= 3 /\ WorksAfter(emp, m)) =>
                          CountErrors(LAMBDA e : e.rule = "7.2" /\ e.emp = emp) >= 1

\* the calendar weekday of a date, 0 = Monday
Weekday(d) == d % 7

\* C16: the weekday field of every shift instance is the calendar weekday of
\* its date, under every start date, and an instance is dated only on a
\* calendar weekday on which its template entry is active.
C16_WeekdayOfDate ==
    Preprocessed =>
        \A i \in DOMAIN data.shifts :
            /\ data.shifts[i].day_of_week = Weekday(data.shifts[i].shift_date)
            /\ \E k \in DOMAIN shift_requirements :
                  /\ shift_requirements[k].shift_name = data.shifts[i].shift_name
                  /\ shift_requirements[k].day_of_week = Weekday(data.shifts[i].shift_date)

====
